---- MODULE Spec2Model ----
(***************************************************************************)
(* The stream-supply engine of the Endless Cat Scroller: the CatAPI cache  *)
(* (prefetch buffer), the Intersection Observer callback with its          *)
(* isLoading / hasError gates, the retry / backoff path of fetchNextBatch, *)
(* and the memory management of the image window (cleanupOldImages).       *)
(***************************************************************************)
EXTENDS Integers, Sequences, FiniteSets, TLC

\* ---------------------------------------------------------------------
\* CONFIG (program constants)
\* ---------------------------------------------------------------------
BATCH_SIZE == 5
MAX_RETRIES == 3
RETRY_DELAYS == <<2000, 4000, 8000>>
CLEANUP_THRESHOLD == 2000
CACHE_SIZE == 20
CLEANUP_TRIGGER_COUNT == 50
IMAGE_HEIGHT == 400
INITIAL_BATCH_FLOOR == 10

\* ---------------------------------------------------------------------
\* Bounds of the model
\* ---------------------------------------------------------------------
\* number of fresh identifiers the image source hands out in one session
MaxFresh == 10
\* number of images a session mounts after its starting point
MaxMounted == 10
\* number of scroll steps (of ScrollStep pixels) the user can be down the page
MaxScrollSteps == 2
\* number of image load failures in one session
MaxFailures == 1
MaxExtent == 2800
MaxCacheFresh == 40
MaxCacheMounted == 30

\* a session either starts empty, or has already shown this many images
PreloadedChoices == {0, CLEANUP_TRIGGER_COUNT + 1 - BATCH_SIZE}
ViewportHeights == {800}
\* the viewport heights over which the initial batch size is computed
Extents == 0..MaxExtent
\* one scroll step puts the top of the page 2100 above the scroll position
ScrollStep == CLEANUP_THRESHOLD + IMAGE_HEIGHT \div 4
\* env.CAT_API_KEY is undefined
KeyUnset == "undefined"
FailureKinds == {"transient", "rate_limited", "invalid_request"}

VARIABLES
    cache,            \* CatAPI.cache: sequence of image ids not yet shown
    isRefilling,      \* CatAPI.isRefilling
    loadedImageIds,   \* STATE.loadedImageIds
    isLoading,        \* STATE.isLoading
    hasError,         \* STATE.hasError
    isInitialLoad,    \* STATE.isInitialLoad
    totalLoaded,      \* STATE.totalLoaded
    window,           \* the image wrappers in the DOM: <<[id, top], ...>>
    scrollTop,        \* current scroll position
    innerHeight,      \* window.innerHeight
    pc,               \* where fetchNextBatch is suspended: idle, fetching, backoff
    retryCount,       \* retry argument of the suspended fetchNextBatch
    reqCount,         \* batch size of the request fetchNextBatch is serving
    backoffDelay,     \* delay of the pending backoff timer (0: none)
    fetchInFlight,    \* counts of the direct /api/cats calls awaiting a reply
    refillInFlight,   \* counts of the refill /api/cats calls awaiting a reply
    nextId,           \* next fresh identifier of the image source
    preloaded,        \* number of images shown before the session's starting point
    everServed,       \* ids handed on by fetchNextBatch so far
    servedTwice,      \* ids handed on by fetchNextBatch more than once
    evictedIds,       \* ids removed from the window by cleanupOldImages
    failedIds,        \* ids removed from the window by an image load failure
    failures,         \* kinds of the consecutive failed attempts of the current request
    escaped,          \* a fetch failure left the demand entry point uncaught
    lastOp            \* the operation that produced this state

\* the Pages Function functions/api/cats.js handling one request, and a second
\* run of it on the same request that differs only in env.CAT_API_KEY
VARIABLES
    request,          \* the request being handled: <<>> or <<[method, limit]>>
    env,              \* env.CAT_API_KEY of the run
    upstreamCalls,    \* calls made to TheCatAPI for this request: [limit, headers]
    upstreamReply,    \* the reply of TheCatAPI once received: <<>> or <<reply>>
    response,         \* the response returned to the client: <<>> or <<[status, headers, body]>>
    twinEnv,          \* env.CAT_API_KEY of the second run
    twinCalls,        \* calls made to TheCatAPI by the second run
    twinResponse      \* the response returned by the second run

\* how far a session is followed
VARIABLES
    freshLimit,       \* the image source hands out this many new identifiers
    mountLimit        \* the page shows this many more images

proxyVars == <<request, env, upstreamCalls, upstreamReply, response, twinEnv,
               twinCalls, twinResponse>>

engineVars == <<cache, isRefilling, loadedImageIds, isLoading, hasError, isInitialLoad,
                totalLoaded, window, scrollTop, innerHeight, pc, retryCount, reqCount,
                backoffDelay, fetchInFlight, refillInFlight, nextId, preloaded,
                everServed, servedTwice, evictedIds, failedIds, failures, escaped,
                lastOp, freshLimit, mountLimit>>

vars == <<cache, isRefilling, loadedImageIds, isLoading, hasError, isInitialLoad,
          totalLoaded, window, scrollTop, innerHeight, pc, retryCount, reqCount,
          backoffDelay, fetchInFlight, refillInFlight, nextId, preloaded,
          everServed, servedTwice, evictedIds, failedIds, failures, escaped,
          lastOp, request, env, upstreamCalls, upstreamReply, response, twinEnv,
          twinCalls, twinResponse, freshLimit, mountLimit>>

\* ---------------------------------------------------------------------
\* Helpers
\* ---------------------------------------------------------------------
Range(s) == {s[i] : i \in 1..Len(s)}

Min(a, b) == IF a < b THEN a ELSE b

Max(a, b) == IF a > b THEN a ELSE b

Ceil_Floor(a, b) == a \div b

Ceil(a, b) == (a + b - 1) \div b

WindowIds(w) == {w[i].id : i \in 1..Len(w)}

\* CONFIG.INITIAL_BATCH_SIZE
InitialBatchSize(extent) == Max(Ceil(extent, IMAGE_HEIGHT) * 2, INITIAL_BATCH_FLOOR)

\* batch size of a demand
BatchSize == IF isInitialLoad THEN InitialBatchSize(innerHeight) ELSE BATCH_SIZE

\* a reply of the image source: k consecutive identifiers starting at base
Reply(base, k) == [i \in 1..k |-> base + i - 1]

\* lengths a reply to a request of count items can have
ReplyLens(count) == {0, Min(count, BATCH_SIZE), count}

CacheHit_OffByOne(c, count) == Len(c) > count

\* ---------------------------------------------------------------------
\* CatAPI: the cache in front of /api/cats
\* ---------------------------------------------------------------------
\* CatAPI.fetch serves from the cache when it holds at least count images
CacheHit(c, count) == Len(c) >= count

ShouldRefill_AtLowWater(c, refilling) == Len(c) <= BATCH_SIZE /\ ~refilling

ShouldRefill_NoFlag(c, refilling) == Len(c) < BATCH_SIZE

\* the cache is refilled in the background when it is below BATCH_SIZE
\* and no refill is running
ShouldRefill(c, refilling) == Len(c) < BATCH_SIZE /\ ~refilling

RefillCount_Full(c) == CACHE_SIZE

\* a refill asks for what tops the cache up to CACHE_SIZE
RefillCount(c) == CACHE_SIZE - Len(c)

RefillSurvivors_NoFilter(reply, c, loaded) == reply

\* images of a refill reply that enter the cache
RefillSurvivors(reply, c, loaded) ==
    SelectSeq(reply, LAMBDA x : x \notin loaded /\ x \notin Range(c))

\* ---------------------------------------------------------------------
\* Image Manager
\* ---------------------------------------------------------------------
DemandAccepted_NoLoadingGate(loading, error) == ~error

DemandAccepted_NoErrorGate(loading, error) == ~loading

\* handleIntersection goes on only when no fetch is running and none failed for good
DemandAccepted(loading, error) == ~loading /\ ~error

FilterDuplicates_NoFilter(images, loaded) == images

\* fetchNextBatch filters out duplicates with STATE.loadedImageIds
FilterDuplicates(images, loaded) == SelectSeq(images, LAMBDA x : x \notin loaded)

ShouldRetry_OneRetryLess(kind, retry) == kind # "rate_limited" /\ retry < MAX_RETRIES - 1

ShouldRetry_RetriesRateLimit(kind, retry) == retry < MAX_RETRIES

\* a failed fetch is retried unless it is a rate limit or the retries are used up
ShouldRetry(kind, retry) == kind # "rate_limited" /\ retry < MAX_RETRIES

RetryDelay_Fixed(retry) == RETRY_DELAYS[1]

\* delay before retry number retry + 1
RetryDelay(retry) == RETRY_DELAYS[retry + 1]

PcAfterBatch_KeepsLoading(newImages) == "fetching"

PcAfterBatch_EmptyIsFailure(newImages) == IF newImages = <<>> THEN "backoff" ELSE "idle"

\* where the controller is once a batch has been appended: handleIntersection
\* clears isLoading whatever the batch held
PcAfterBatch(newImages) == "idle"

Caught_NetworkOnly(kind) == kind = "transient"

\* whether fetchNextBatch catches a failure of this kind
Caught(kind) == kind \in FailureKinds

\* the wrappers appended for newImages, each with its offset at insertion
NewWrappers(newImages, loadedSoFar) ==
    [i \in 1..Len(newImages) |->
        [id |-> newImages[i], top |-> (loadedSoFar + i - 1) * IMAGE_HEIGHT]]

\* ---------------------------------------------------------------------
\* Memory Management
\* ---------------------------------------------------------------------
CleanupActive_AtTriggerCount(w) == Len(w) >= CLEANUP_TRIGGER_COUNT

\* cleanupOldImages acts only with more than CLEANUP_TRIGGER_COUNT images in the DOM
CleanupActive(w) == Len(w) > CLEANUP_TRIGGER_COUNT

\* a wrapper is removed when it is more than CLEANUP_THRESHOLD above the scroll position
TooFarAbove(wrapper, scroll) == wrapper.top < scroll - CLEANUP_THRESHOLD

\* the wrappers cleanupOldImages leaves in the DOM
WindowAfterCleanup(w, scroll) ==
    IF CleanupActive(w)
    THEN SelectSeq(w, LAMBDA e : ~TooFarAbove(e, scroll))
    ELSE w

\* the ids of the wrappers cleanupOldImages removes
EvictedBy(w, scroll) == WindowIds(w) \ WindowIds(WindowAfterCleanup(w, scroll))

LoadedAfterCleanup_ClearsSet(loaded, evicted) == IF evicted = {} THEN loaded ELSE {}

LoadedAfterCleanup_KeepsIds(loaded, evicted) == loaded

\* STATE.loadedImageIds after cleanupOldImages: the removed ids are deleted
LoadedAfterCleanup(loaded, evicted) == loaded \ evicted

\* what fetchNextBatch does with the images CatAPI.fetch returned: filter the
\* duplicates, append the new wrappers, then run cleanupOldImages
Served(images) ==
    LET new == FilterDuplicates(images, loadedImageIds)
        appended == window \o NewWrappers(new, totalLoaded)
        evicted == EvictedBy(appended, scrollTop)
    IN  [new |-> new,
         window |-> WindowAfterCleanup(appended, scrollTop),
         loaded |-> LoadedAfterCleanup(loadedImageIds \cup Range(new), evicted),
         evicted |-> evicted]

\* lastOp of an operation that showed and removed nothing; refill tells
\* whether the operation started a background refill
NoOp(name, refill) == [op |-> name, served |-> {}, evicted |-> {}, refill |-> refill]

\* ---------------------------------------------------------------------
\* Initial state: a fresh page, or a session that has shown
\* images through direct fetches (one batch short of the cleanup), cache empty
\* ---------------------------------------------------------------------
\* no request is being handled by the Pages Function
ProxyIdle ==
    /\ request = <<>>
    /\ env = KeyUnset
    /\ upstreamCalls = <<>>
    /\ upstreamReply = <<>>
    /\ response = <<>>
    /\ twinEnv = KeyUnset
    /\ twinCalls = <<>>
    /\ twinResponse = <<>>

Constructed ==
    /\ cache = <<>>
    /\ isRefilling = FALSE
    /\ loadedImageIds = 1..preloaded
    /\ isLoading = FALSE
    /\ hasError = FALSE
    /\ isInitialLoad = (preloaded = 0)
    /\ totalLoaded = preloaded
    /\ window = NewWrappers(Reply(1, preloaded), 0)
    /\ scrollTop = 0
    /\ pc = "idle"
    /\ retryCount = 0
    /\ reqCount = 0
    /\ backoffDelay = 0
    /\ fetchInFlight = <<>>
    /\ refillInFlight = <<>>
    /\ nextId = preloaded + 1
    /\ everServed = 1..preloaded
    /\ servedTwice = {}
    /\ evictedIds = {}
    /\ failedIds = {}
    /\ failures = <<>>
    /\ escaped = FALSE
    /\ lastOp = NoOp("init", FALSE)
    /\ ProxyIdle

Init ==
    /\ preloaded \in PreloadedChoices
    /\ innerHeight \in ViewportHeights
    /\ Constructed
    /\ freshLimit = MaxFresh
    /\ mountLimit = MaxMounted

\* ---------------------------------------------------------------------
\* Pieces of fetchNextBatch / CatAPI.fetch shared by the handlers
\* ---------------------------------------------------------------------
\* CatAPI.fetch starts the background refill when the cache c it leaves needs one
StartRefillIfNeeded(c) ==
    IF ShouldRefill(c, isRefilling)
    THEN /\ isRefilling' = TRUE
         /\ refillInFlight' = Append(refillInFlight, RefillCount(c))
    ELSE UNCHANGED <<isRefilling, refillInFlight>>

RetryCountAfterSuccess_Kept(retry) == retry

\* the retry counter of fetchNextBatch once a batch has arrived: retries are
\* counted for one request, the next request starts from zero
RetryCountAfterSuccess(retry) == 0

\* fetchNextBatch got images: show them and return to handleIntersection,
\* which clears isLoading
FinishBatch(images, name, refill) ==
    LET r == Served(images)
    IN  /\ totalLoaded + Len(r.new) <= preloaded + mountLimit
        /\ window' = r.window
        /\ loadedImageIds' = r.loaded
        /\ totalLoaded' = totalLoaded + Len(r.new)
        /\ everServed' = everServed \cup Range(r.new)
        /\ servedTwice' = servedTwice \cup (Range(r.new) \cap everServed)
        /\ evictedIds' = evictedIds \cup r.evicted
        /\ pc' = PcAfterBatch(r.new)
        /\ isLoading' = (PcAfterBatch(r.new) # "idle")
        /\ retryCount' = RetryCountAfterSuccess(retryCount)
        /\ reqCount' = 0
        /\ backoffDelay' = 0
        /\ failures' = <<>>
        /\ lastOp' = [op |-> name, served |-> Range(r.new), evicted |-> r.evicted,
                      refill |-> refill]

\* CatAPI.fetch(count) on a cache hit: the first count cached images
TakeHit(count, name) ==
    /\ CacheHit(cache, count)
    /\ cache' = SubSeq(cache, count + 1, Len(cache))
    /\ StartRefillIfNeeded(SubSeq(cache, count + 1, Len(cache)))
    /\ FinishBatch(SubSeq(cache, 1, count), name,
                   ShouldRefill(SubSeq(cache, count + 1, Len(cache)), isRefilling))
    /\ UNCHANGED <<fetchInFlight, nextId>>

\* CatAPI.fetch(count) on a cache miss: a direct call to /api/cats
TakeMiss(count, name) ==
    /\ ~CacheHit(cache, count)
    /\ fetchInFlight' = Append(fetchInFlight, count)
    /\ StartRefillIfNeeded(cache)
    /\ isLoading' = TRUE
    /\ pc' = "fetching"
    /\ reqCount' = count
    /\ backoffDelay' = 0
    /\ lastOp' = NoOp(name, ShouldRefill(cache, isRefilling))
    /\ UNCHANGED <<cache, loadedImageIds, totalLoaded, window, retryCount, nextId,
                   everServed, servedTwice, evictedIds, failures>>

\* ---------------------------------------------------------------------
\* Scroll Controller: the Intersection Observer callback
\* ---------------------------------------------------------------------
IsInitialLoadAfterDemand_NeverCleared(initial) == initial

\* STATE.isInitialLoad once handleIntersection has accepted a demand: the
\* larger batch is for the very first demand only
IsInitialLoadAfterDemand(initial) == FALSE

HandleIntersectionIgnored ==
    /\ ~DemandAccepted(isLoading, hasError)
    /\ lastOp' = NoOp("demand_ignored", FALSE)
    /\ UNCHANGED <<proxyVars, freshLimit, mountLimit, cache, isRefilling, loadedImageIds, isLoading, hasError,
                   isInitialLoad, totalLoaded, window, scrollTop, innerHeight, pc,
                   retryCount, reqCount, backoffDelay, fetchInFlight, refillInFlight,
                   nextId, preloaded, everServed, servedTwice, evictedIds, failedIds,
                   failures, escaped>>

HandleIntersectionHit ==
    /\ DemandAccepted(isLoading, hasError)
    /\ TakeHit(BatchSize, "demand_hit")
    /\ isInitialLoad' = IsInitialLoadAfterDemand(isInitialLoad)
    /\ UNCHANGED <<proxyVars, freshLimit, mountLimit, hasError, scrollTop, innerHeight, preloaded, failedIds, escaped>>

HandleIntersectionMiss ==
    /\ DemandAccepted(isLoading, hasError)
    /\ TakeMiss(BatchSize, "demand_miss")
    /\ isInitialLoad' = IsInitialLoadAfterDemand(isInitialLoad)
    /\ UNCHANGED <<proxyVars, freshLimit, mountLimit, hasError, scrollTop, innerHeight, preloaded, failedIds, escaped>>

\* ---------------------------------------------------------------------
\* The image source (/api/cats) answers the direct call of fetchNextBatch
\* ---------------------------------------------------------------------
\* the replies the source can give to a request of count images: fresh
\* identifiers, or identifiers it has handed out before (starting again at 1)
Replies(count) ==
    {Reply(nextId, k) : k \in {n \in ReplyLens(count) : nextId + n - 1 <= preloaded + freshLimit}}
    \cup {Reply(1, k) : k \in {n \in ReplyLens(count) : n >= 1 /\ n < nextId}}

NextIdAfter(reply) ==
    IF reply # <<>> /\ reply[1] = nextId THEN nextId + Len(reply) ELSE nextId

FetchSuccess ==
    /\ pc = "fetching"
    /\ fetchInFlight # <<>>
    /\ \E reply \in Replies(Head(fetchInFlight)) :
          /\ FinishBatch(reply, "fetch_ok", FALSE)
          /\ nextId' = NextIdAfter(reply)
    /\ fetchInFlight' = Tail(fetchInFlight)
    /\ UNCHANGED <<proxyVars, freshLimit, mountLimit, cache, isRefilling, refillInFlight, hasError, isInitialLoad,
                   scrollTop, innerHeight, preloaded, failedIds, escaped>>

\* the catch block of fetchNextBatch
FetchFail ==
    /\ pc = "fetching"
    /\ fetchInFlight # <<>>
    /\ \E kind \in FailureKinds :
          /\ failures' = Append(failures, kind)
          /\ IF ~Caught(kind)
             THEN /\ escaped' = TRUE
                  /\ pc' = "idle"
                  /\ UNCHANGED <<hasError, isLoading, retryCount, backoffDelay, reqCount>>
             ELSE IF ShouldRetry(kind, retryCount)
             THEN /\ pc' = "backoff"
                  /\ backoffDelay' = RetryDelay(retryCount)
                  /\ retryCount' = retryCount + 1
                  /\ UNCHANGED <<hasError, isLoading, reqCount, escaped>>
             ELSE /\ hasError' = TRUE
                  /\ isLoading' = FALSE
                  /\ pc' = "idle"
                  /\ backoffDelay' = 0
                  /\ reqCount' = 0
                  /\ UNCHANGED <<retryCount, escaped>>
    /\ fetchInFlight' = Tail(fetchInFlight)
    /\ lastOp' = NoOp("fetch_fail", FALSE)
    /\ UNCHANGED <<proxyVars, freshLimit, mountLimit, cache, isRefilling, refillInFlight, loadedImageIds, isInitialLoad,
                   totalLoaded, window, scrollTop, innerHeight, nextId, preloaded,
                   everServed, servedTwice, evictedIds, failedIds>>

\* the backoff timer fires: fetchNextBatch runs again for the same request
BackoffResumeHit ==
    /\ pc = "backoff"
    /\ TakeHit(reqCount, "resume_hit")
    /\ UNCHANGED <<proxyVars, freshLimit, mountLimit, hasError, isInitialLoad, scrollTop, innerHeight, preloaded,
                   failedIds, escaped>>

BackoffResumeMiss ==
    /\ pc = "backoff"
    /\ TakeMiss(reqCount, "resume_miss")
    /\ UNCHANGED <<proxyVars, freshLimit, mountLimit, hasError, isInitialLoad, scrollTop, innerHeight, preloaded,
                   failedIds, escaped>>

\* ---------------------------------------------------------------------
\* The background refill of the cache completes
\* ---------------------------------------------------------------------
IsRefillingAfter_StuckOnFailure(succeeded) == ~succeeded

\* the refill is over, with or without images: isRefilling is cleared
IsRefillingAfter(succeeded) == FALSE

RefillSuccess ==
    /\ refillInFlight # <<>>
    /\ \E reply \in Replies(Head(refillInFlight)) :
          /\ cache' = cache \o RefillSurvivors(reply, cache, loadedImageIds)
          /\ nextId' = NextIdAfter(reply)
    /\ refillInFlight' = Tail(refillInFlight)
    /\ isRefilling' = IsRefillingAfter(TRUE)
    /\ lastOp' = NoOp("refill_ok", FALSE)
    /\ UNCHANGED <<proxyVars, freshLimit, mountLimit, loadedImageIds, isLoading, hasError, isInitialLoad, totalLoaded,
                   window, scrollTop, innerHeight, pc, retryCount, reqCount,
                   backoffDelay, fetchInFlight, preloaded, everServed, servedTwice,
                   evictedIds, failedIds, failures, escaped>>

HasErrorAfterRefillFail_Halts(error) == TRUE

\* a failed refill is logged ("Cache refill failed"), nothing else
HasErrorAfterRefillFail(error) == error

RefillFail ==
    /\ refillInFlight # <<>>
    /\ lastOp' = NoOp("refill_fail", FALSE)
    /\ refillInFlight' = Tail(refillInFlight)
    /\ isRefilling' = IsRefillingAfter(FALSE)
    /\ hasError' = HasErrorAfterRefillFail(hasError)
    /\ UNCHANGED <<proxyVars, freshLimit, mountLimit, cache, loadedImageIds, isLoading,
                   isInitialLoad, totalLoaded, window, scrollTop, innerHeight, pc,
                   retryCount, reqCount, backoffDelay, fetchInFlight, nextId, preloaded,
                   everServed, servedTwice, evictedIds, failedIds, failures, escaped>>

\* ---------------------------------------------------------------------
\* Scrolling, the scroll-driven cleanup, and image load failures
\* ---------------------------------------------------------------------
Scroll ==
    /\ window # <<>>
    /\ scrollTop + ScrollStep <= MaxScrollSteps * ScrollStep
    /\ scrollTop + ScrollStep <= window[Len(window)].top
    /\ scrollTop' = scrollTop + ScrollStep
    /\ lastOp' = NoOp("scroll", FALSE)
    /\ UNCHANGED <<proxyVars, freshLimit, mountLimit, cache, isRefilling, loadedImageIds, isLoading, hasError,
                   isInitialLoad, totalLoaded, window, innerHeight, pc, retryCount,
                   reqCount, backoffDelay, fetchInFlight, refillInFlight, nextId,
                   preloaded, everServed, servedTwice, evictedIds, failedIds, failures, escaped>>

ScrollCleanup ==
    LET evicted == EvictedBy(window, scrollTop)
    IN  /\ window' = WindowAfterCleanup(window, scrollTop)
        /\ loadedImageIds' = LoadedAfterCleanup(loadedImageIds, evicted)
        /\ evictedIds' = evictedIds \cup evicted
        /\ lastOp' = [op |-> "cleanup", served |-> {}, evicted |-> evicted,
                      refill |-> FALSE]
        /\ UNCHANGED <<proxyVars, freshLimit, mountLimit, cache, isRefilling, isLoading, hasError, isInitialLoad,
                       totalLoaded, scrollTop, innerHeight, pc, retryCount, reqCount,
                       backoffDelay, fetchInFlight, refillInFlight, nextId, preloaded,
                       everServed, servedTwice, failedIds, failures, escaped>>

LoadedAfterImageError_ForgetsId(loaded, id) == loaded \ {id}

\* STATE.loadedImageIds after the onerror handler of image id: the handler
\* removes the wrapper from the DOM and touches nothing else
LoadedAfterImageError(loaded, id) == loaded

\* the onerror handler of an image removes its wrapper from the DOM
\* (the image that fails is the one mounted last)
ImageLoadFail ==
    /\ Cardinality(failedIds) < MaxFailures
    /\ \E i \in {Len(window)} \ {0} :
          /\ window[i].id > preloaded
          /\ window' = SubSeq(window, 1, i - 1) \o SubSeq(window, i + 1, Len(window))
          /\ loadedImageIds' = LoadedAfterImageError(loadedImageIds, window[i].id)
          /\ failedIds' = failedIds \cup {window[i].id}
    /\ lastOp' = NoOp("image_error", FALSE)
    /\ UNCHANGED <<proxyVars, freshLimit, mountLimit, cache, isRefilling, isLoading, hasError,
                   isInitialLoad, totalLoaded, scrollTop, innerHeight, pc, retryCount,
                   reqCount, backoffDelay, fetchInFlight, refillInFlight, nextId,
                   preloaded, everServed, servedTwice, evictedIds, failures, escaped>>

Next ==
    \/ HandleIntersectionIgnored
    \/ HandleIntersectionHit
    \/ HandleIntersectionMiss
    \/ FetchSuccess
    \/ FetchFail
    \/ BackoffResumeHit
    \/ BackoffResumeMiss
    \/ RefillSuccess
    \/ RefillFail
    \/ Scroll
    \/ ScrollCleanup
    \/ ImageLoadFail

Spec == Init /\ [][Next]_vars

\* every call to /api/cats is answered, every backoff timer fires
Fairness ==
    /\ WF_vars(FetchSuccess \/ FetchFail)
    /\ WF_vars(RefillSuccess \/ RefillFail)
    /\ WF_vars(BackoffResumeHit \/ BackoffResumeMiss)

\* a fresh page
InitFresh ==
    /\ preloaded = 0
    /\ innerHeight \in ViewportHeights
    /\ Constructed
    /\ freshLimit = MaxFresh
    /\ mountLimit = MaxMounted

SpecFair == InitFresh /\ [][Next]_vars /\ Fairness

\* ---------------------------------------------------------------------
\* A fresh page, on a small or a tall viewport, followed far enough for
\* the cache to fill up; no scrolling back, no image load failure
\* ---------------------------------------------------------------------
InitCache ==
    /\ preloaded = 0
    /\ innerHeight \in ViewportHeights \cup {MaxExtent}
    /\ Constructed
    /\ freshLimit = MaxCacheFresh
    /\ mountLimit = MaxCacheMounted

NextCache ==
    \/ HandleIntersectionIgnored
    \/ HandleIntersectionHit
    \/ HandleIntersectionMiss
    \/ FetchSuccess
    \/ FetchFail
    \/ BackoffResumeHit
    \/ BackoffResumeMiss
    \/ RefillSuccess
    \/ RefillFail

SpecCache == InitCache /\ [][NextCache]_vars

\* ---------------------------------------------------------------------
\* The first demand of a fresh session, over every viewport height
\* ---------------------------------------------------------------------
InitBatch ==
    /\ preloaded = 0
    /\ innerHeight \in Extents
    /\ Constructed
    /\ freshLimit = MaxFresh
    /\ mountLimit = MaxMounted

NextBatch ==
    \/ HandleIntersectionMiss
    \/ HandleIntersectionIgnored

SpecBatch == InitBatch /\ [][NextBatch]_vars

\* ---------------------------------------------------------------------
\* functions/api/cats.js: the Pages Function between the page and TheCatAPI
\* ---------------------------------------------------------------------
MaxLimitLen == 3
UPSTREAM_LIMIT_CAP == 100
DEFAULT_LIMIT == <<"1", "0">>
DEFAULT_RETRY_AFTER == "60"

\* characters of the limit query parameter, and its possible texts
LimitChars == {"0", "1", "9", "-", "a", "x", ".", " "}
LimitTexts == UNION {[1..n -> LimitChars] : n \in 0..MaxLimitLen}
\* url.searchParams.get('limit'): <<>> is null (no such parameter)
LimitParams == {<<>>} \cup {<<t>> : t \in LimitTexts}
Methods == {"GET", "OPTIONS", "POST", "DELETE"}
Keys == {KeyUnset, "", "live_k1", "live_k2"}

\* a header collection is a set of <<name, value>> pairs
CORS_HEADERS ==
    {<<"Content-Type", "application/json">>,
     <<"Access-Control-Allow-Origin", "*">>,
     <<"Access-Control-Allow-Methods", "GET, OPTIONS">>,
     <<"Access-Control-Allow-Headers", "Content-Type">>}

HeaderNames(headers) == {h[1] : h \in headers}
HeaderValues(headers, name) == {h[2] : h \in {g \in headers : g[1] = name}}

Spread_Replace(base, extra) == extra

\* { ...base, extra }
Spread(base, extra) ==
    {h \in base : h[1] \notin HeaderNames(extra)} \cup extra

\* parseInt(string): leading white space, a sign, a 0x prefix, then the
\* longest prefix of digits of the radix; NaN when there is no digit
NaN == [nan |-> TRUE, val |-> 0]
Number(n) == [nan |-> FALSE, val |-> n]

DigitValue(ch, radix) ==
    LET v == CASE ch = "0" -> 0 [] ch = "1" -> 1 [] ch = "2" -> 2 [] ch = "3" -> 3
               [] ch = "4" -> 4 [] ch = "5" -> 5 [] ch = "6" -> 6 [] ch = "7" -> 7
               [] ch = "8" -> 8 [] ch = "9" -> 9
               [] ch \in {"a", "A"} -> 10 [] ch \in {"b", "B"} -> 11
               [] ch \in {"c", "C"} -> 12 [] ch \in {"d", "D"} -> 13
               [] ch \in {"e", "E"} -> 14 [] ch \in {"f", "F"} -> 15
               [] OTHER -> -1
    IN  IF v < radix THEN v ELSE -1

RECURSIVE TrimStart(_)
TrimStart(s) == IF s # <<>> /\ Head(s) = " " THEN TrimStart(Tail(s)) ELSE s

RECURSIVE DigitsPrefix(_, _)
DigitsPrefix(s, radix) ==
    IF s = <<>> \/ DigitValue(Head(s), radix) < 0
    THEN <<>>
    ELSE <<Head(s)>> \o DigitsPrefix(Tail(s), radix)

RECURSIVE DigitsValue(_, _)
DigitsValue(d, radix) ==
    IF d = <<>>
    THEN 0
    ELSE DigitsValue(SubSeq(d, 1, Len(d) - 1), radix) * radix + DigitValue(d[Len(d)], radix)

ParseInt(text) ==
    LET s == TrimStart(text)
        negative == s # <<>> /\ Head(s) = "-"
        unsigned == IF s # <<>> /\ Head(s) \in {"-", "+"} THEN Tail(s) ELSE s
        hex == Len(unsigned) >= 2 /\ unsigned[1] = "0" /\ unsigned[2] \in {"x", "X"}
        radix == IF hex THEN 16 ELSE 10
        digits == DigitsPrefix(IF hex THEN Tail(Tail(unsigned)) ELSE unsigned, radix)
        v == DigitsValue(digits, radix)
    IN  IF digits = <<>> THEN NaN ELSE Number(IF negative THEN 0 - v ELSE v)

MathMin(a, n) == IF a.nan THEN NaN ELSE Number(Min(a.val, n))

\* url.searchParams.get('limit') || '10'
LimitOrDefault(param) ==
    IF param = <<>> \/ param[1] = <<>> THEN DEFAULT_LIMIT ELSE param[1]

\* Math.min(parseInt(url.searchParams.get('limit') || '10'), 100)
LimitOf(param) == MathMin(ParseInt(LimitOrDefault(param)), UPSTREAM_LIMIT_CAP)

\* isNaN(limit) || limit < 1
InvalidLimit(limit) == limit.nan \/ limit.val < 1

MethodAllowed_Any(method) == TRUE

MethodAllowed(method) == method = "GET"

UpstreamHeaders_Always(key) == {<<"x-api-key", key>>}

\* if (env.CAT_API_KEY) headers['x-api-key'] = env.CAT_API_KEY
UpstreamHeaders(key) ==
    IF key # KeyUnset /\ key # "" THEN {<<"x-api-key", key>>} ELSE {}

Respond(status, headers, body) ==
    [status |-> status, headers |-> headers, body |-> body]

\* the replies of TheCatAPI: fetch rejects, or resolves with a status, an
\* optional Retry-After header, and a body that can or cannot be read
UpstreamStatuses == {200, 401, 429, 503}
RetryAfterValues == {<<>>, <<"">>, <<"120">>}
UpstreamTexts == {"[{\"id\":\"abc\"}]", "[ { \"id\" : \"abc\" } ]", "<html>Bad Gateway</html>"}
NetworkMessages == {"Network connection lost"}

UpstreamReplies ==
    {[kind |-> "network_error", status |-> 0, retryAfter |-> <<>>, text |-> m,
      readable |-> FALSE] : m \in NetworkMessages}
    \cup [kind : {"http"}, status : UpstreamStatuses, retryAfter : RetryAfterValues,
          text : UpstreamTexts, readable : BOOLEAN]

\* response.ok
IsOk(status) == status \in 200..299

\* response.json() of a body text: <<value>>, or <<>> when it throws
JsonParse(text) ==
    IF text \in {"[{\"id\":\"abc\"}]", "[ { \"id\" : \"abc\" } ]"}
    THEN <<[id |-> "abc"]>>
    ELSE <<>>

\* JSON.stringify of an array holding one parsed value
JsonStringify(value) ==
    IF value = [id |-> "abc"] THEN "[{\"id\":\"abc\"}]" ELSE "null"

IsRateLimited_Never(status) == FALSE

\* response.status === 429
IsRateLimited(status) == status = 429

\* the catch block: 500 with error.message in the body
Failed(message) ==
    Respond(500, CORS_HEADERS,
            <<"error", "Failed to fetch cat images", "message">> \o message)

\* response.headers.get('Retry-After') || '60'
RetryAfterOrDefault(retryAfter) ==
    IF retryAfter = <<>> \/ retryAfter[1] = "" THEN DEFAULT_RETRY_AFTER ELSE retryAfter[1]

RateLimited(retryAfter) ==
    Respond(429, Spread(CORS_HEADERS, {<<"Retry-After", RetryAfterOrDefault(retryAfter)>>}),
            <<"error", "Rate limit exceeded", "message",
              "Too many requests to TheCatAPI. Please try again later.">>)

\* onRequest up to the upstream fetch: the response it returns at once, or
\* the call it makes to TheCatAPI
OnRequest(req, key) ==
    IF req.method = "OPTIONS"
    THEN [response |-> <<Respond(204, CORS_HEADERS, <<>>)>>, calls |-> <<>>]
    ELSE IF ~MethodAllowed(req.method)
    THEN [response |-> <<Respond(405, CORS_HEADERS, <<"error", "Method not allowed">>)>>,
          calls |-> <<>>]
    ELSE LET limit == LimitOf(req.limit)
         IN  IF InvalidLimit(limit)
             THEN [response |-> <<Respond(400, CORS_HEADERS,
                                          <<"error", "Invalid limit parameter">>)>>,
                   calls |-> <<>>]
             ELSE [response |-> <<>>,
                   calls |-> <<[limit |-> limit.val, headers |-> UpstreamHeaders(key)]>>]

\* onRequest from the upstream reply on
OnUpstreamReply(reply) ==
    IF reply.kind = "network_error"
    THEN Failed(<<reply.text>>)
    ELSE IF ~IsOk(reply.status)
    THEN LET errorText == IF reply.readable THEN reply.text ELSE ""
         IN  IF IsRateLimited(reply.status)
             THEN RateLimited(reply.retryAfter)
             ELSE Failed(<<"TheCatAPI returned ", ToString(reply.status), ": ", errorText>>)
    ELSE LET cats == IF reply.readable THEN JsonParse(reply.text) ELSE <<>>
         IN  IF cats = <<>>
             THEN Failed(<<"Unexpected token">>)
             ELSE Respond(200,
                          Spread(CORS_HEADERS,
                                 {<<"Cache-Control", "no-cache, no-store, must-revalidate">>}),
                          <<JsonStringify(cats[1])>>)

\* a run has called TheCatAPI and not answered yet
Awaiting(calls, resp) == calls # <<>> /\ resp = <<>>

\* a request arrives; both runs handle it up to their upstream call
ProxyReceive ==
    /\ request = <<>>
    /\ \E method \in Methods, limit \in LimitParams, key \in Keys :
       \E twinKey \in Keys \ {key} :
          LET req == [method |-> method, limit |-> limit]
              run == OnRequest(req, key)
              twin == OnRequest(req, twinKey)
          IN  /\ request' = <<req>>
              /\ env' = key
              /\ twinEnv' = twinKey
              /\ upstreamCalls' = run.calls
              /\ response' = run.response
              /\ twinCalls' = twin.calls
              /\ twinResponse' = twin.response
    /\ upstreamReply' = <<>>
    /\ UNCHANGED engineVars

\* TheCatAPI gives the same reply to both runs
ProxyUpstreamReply ==
    /\ upstreamReply = <<>>
    /\ Awaiting(upstreamCalls, response) \/ Awaiting(twinCalls, twinResponse)
    /\ \E reply \in UpstreamReplies :
          /\ upstreamReply' = <<reply>>
          /\ response' = IF Awaiting(upstreamCalls, response)
                         THEN <<OnUpstreamReply(reply)>> ELSE response
          /\ twinResponse' = IF Awaiting(twinCalls, twinResponse)
                             THEN <<OnUpstreamReply(reply)>> ELSE twinResponse
    /\ UNCHANGED <<engineVars, request, env, twinEnv, upstreamCalls, twinCalls>>

\* both responses are returned; the function is ready for the next request
ProxyDone ==
    /\ response # <<>>
    /\ twinResponse # <<>>
    /\ request' = <<>>
    /\ env' = KeyUnset
    /\ twinEnv' = KeyUnset
    /\ upstreamCalls' = <<>>
    /\ upstreamReply' = <<>>
    /\ response' = <<>>
    /\ twinCalls' = <<>>
    /\ twinResponse' = <<>>
    /\ UNCHANGED engineVars

InitProxy ==
    /\ preloaded = 0
    /\ innerHeight \in ViewportHeights
    /\ Constructed
    /\ freshLimit = MaxFresh
    /\ mountLimit = MaxMounted

NextProxy ==
    \/ ProxyReceive
    \/ ProxyUpstreamReply
    \/ ProxyDone

SpecProxy == InitProxy /\ [][NextProxy]_vars

\* ---------------------------------------------------------------------
\* Vocabulary of the properties
\* ---------------------------------------------------------------------
DemandOps == {"demand_ignored", "demand_hit", "demand_miss"}

TakeOps == {"demand_hit", "demand_miss", "resume_hit", "resume_miss"}

BatchOps == {"demand_hit", "resume_hit", "fetch_ok"}

\* the controller states of the design
Idle == ~isLoading /\ ~hasError /\ pc = "idle"

FetchInFlight == isLoading /\ pc = "fetching"

Backoff == isLoading /\ pc = "backoff"

Halted == hasError

ControllerState == <<isLoading, hasError, pc, retryCount, reqCount, backoffDelay>>

\* no two wrappers of the window show the same image
NoDuplicateWrappers == Cardinality(WindowIds(window)) = Len(window)

Transients(n) == [i \in 1..n |-> "transient"]

\* ---------------------------------------------------------------------
\* C1  While isLoading is set (a fetch in flight or a backoff pending), a
\*     demand signal is ignored: it changes nothing of the controller state,
\*     starts no call to the image source, and so there is never more than
\*     one controller-level fetch in flight.
\* ---------------------------------------------------------------------
C1_DemandIgnoredWhileLoading ==
    /\ [](Len(fetchInFlight) <= 1)
    /\ [][(isLoading /\ lastOp'.op \in DemandOps)
            => /\ lastOp'.op = "demand_ignored"
               /\ UNCHANGED <<ControllerState, fetchInFlight, refillInFlight>>]_vars

C1_Witness ==
    /\ lastOp.op = "demand_ignored"
    /\ FetchInFlight
    /\ Len(fetchInFlight) = 1

\* ---------------------------------------------------------------------
\* C2  (as stated) No identifier is handed on by take more than once over
\*     the lifetime of the buffer.
\* ---------------------------------------------------------------------
C2_NeverServedTwice == servedTwice = {}

\* C2  (amended) take never hands on an identifier that is in
\*     loadedImageIds, so the window never holds two wrappers with the same
\*     identifier; an identifier is handed on a second time only after
\*     cleanupOldImages evicted its wrapper and deleted it from the set.
C2_ServedTwiceOnlyAfterEviction ==
    /\ servedTwice \subseteq evictedIds
    /\ NoDuplicateWrappers
    /\ lastOp.served \subseteq loadedImageIds

C2_Witness ==
    /\ servedTwice # {}
    /\ lastOp.op = "fetch_ok"
    /\ lastOp.served \cap evictedIds # {}
    /\ lastOp.served \cap servedTwice # {}

\* ---------------------------------------------------------------------
\* C3  (as stated) loadedImageIds never loses an element and holds the
\*     identifier of every wrapper in the window.
\* ---------------------------------------------------------------------
C3_SetOnlyGrows ==
    [][/\ loadedImageIds \subseteq loadedImageIds'
       /\ WindowIds(window') \subseteq loadedImageIds']_vars

\* C3  (amended) loadedImageIds holds the identifier of every wrapper in the
\*     window; it loses an element only in a step in which cleanupOldImages
\*     removes the wrapper of that identifier from the window, and in every
\*     other step it only grows.
C3_SetLosesOnlyEvicted ==
    /\ [](WindowIds(window) \subseteq loadedImageIds)
    /\ [][/\ (loadedImageIds \ loadedImageIds')
                \subseteq (WindowIds(window) \ WindowIds(window'))
          /\ (loadedImageIds \ loadedImageIds') = lastOp'.evicted \cap loadedImageIds
          /\ (loadedImageIds # loadedImageIds' /\ lastOp'.evicted = {})
                => loadedImageIds \subseteq loadedImageIds']_vars

C3_Witness ==
    /\ lastOp.evicted # {}
    /\ lastOp.evicted \cap loadedImageIds = {}
    /\ Len(window) >= CLEANUP_TRIGGER_COUNT - 1
    /\ WindowIds(window) \subseteq loadedImageIds

\* ---------------------------------------------------------------------
\* C4  (as stated) The identifier of an evicted wrapper stays in
\*     loadedImageIds and is never in the window again.
\* ---------------------------------------------------------------------
C4_EvictedStaysKnown ==
    /\ evictedIds \subseteq loadedImageIds
    /\ evictedIds \cap WindowIds(window) = {}

\* C4  (amended) cleanupOldImages deletes the identifier of an evicted
\*     wrapper from loadedImageIds: until a later reply of the image source
\*     brings the identifier back it is neither in the set nor in the window,
\*     and when it comes back it is not filtered but mounted again (once:
\*     the window never holds it twice).
C4_EvictedIsForgotten ==
    /\ \A id \in evictedIds \ servedTwice :
          id \notin loadedImageIds /\ id \notin WindowIds(window)
    /\ \A id \in evictedIds \cap loadedImageIds : id \in servedTwice
    /\ lastOp.evicted \cap loadedImageIds = {}
    /\ NoDuplicateWrappers

C4_Witness ==
    \E id \in evictedIds :
        /\ id \in servedTwice
        /\ id \in WindowIds(window)
        /\ id \in loadedImageIds

\* ---------------------------------------------------------------------
\* C5  isRefilling is a mutual-exclusion gate: there are never two refill
\*     calls awaiting a reply, and a take made while a refill is running
\*     starts no further refill (with CACHE_SIZE 20 and BATCH_SIZE 5 as the
\*     low-water mark: one refill call until that refill resolves).
\* ---------------------------------------------------------------------
C5_OneRefillAtATime ==
    /\ [](Len(refillInFlight) <= 1)
    /\ [][isRefilling => /\ Len(refillInFlight') <= Len(refillInFlight)
                         /\ (lastOp'.op \in TakeOps => ~lastOp'.refill)]_vars

C5_Witness ==
    /\ lastOp.op \in TakeOps
    /\ ~lastOp.refill
    /\ isRefilling
    /\ Len(refillInFlight) = 1
    /\ Len(cache) < BATCH_SIZE

\* ---------------------------------------------------------------------
\* C6  (as stated) With RETRY_DELAYS [2000, 4000, 8000] and 3 as the
\*     maximum, three consecutive transient failures halt the controller.
\* ---------------------------------------------------------------------
C6_ThreeFailuresHalt == failures = Transients(3) => Halted

\* C6  (amended) MAX_RETRIES 3 counts the retries, not the attempts: the
\*     first three consecutive transient failures are each followed by a
\*     backoff of 2000, 4000 and 8000, the fourth one (the failure of the
\*     third retry) halts the controller, and from then on no call to the
\*     image source is made, whatever demand signals arrive.
C6_FourFailuresHalt ==
    /\ \A n \in 1..MAX_RETRIES :
          failures = Transients(n)
             => ~Halted /\ retryCount = n
                /\ (lastOp.op = "fetch_fail" => Backoff /\ backoffDelay = RETRY_DELAYS[n])
    /\ failures = Transients(MAX_RETRIES + 1)
          => Halted /\ pc = "idle" /\ fetchInFlight = <<>>

C6_Witness ==
    /\ failures = Transients(MAX_RETRIES + 1)
    /\ Halted
    /\ lastOp.op = "demand_ignored"

\* ---------------------------------------------------------------------
\* C7  Halted is absorbing: once hasError is set, no demand signal, timer,
\*     refill completion or scroll event changes the controller state or
\*     starts a call to the image source.
\* ---------------------------------------------------------------------
C7_HaltedIsAbsorbing ==
    [][Halted => /\ Halted'
                 /\ UNCHANGED ControllerState
                 /\ fetchInFlight' = fetchInFlight
                 /\ Len(refillInFlight') <= Len(refillInFlight)
                 /\ ~lastOp'.refill]_vars

C7_Witness ==
    /\ Halted
    /\ lastOp.op = "demand_ignored"
    /\ ~isRefilling
    /\ Len(cache) >= BATCH_SIZE

\* ---------------------------------------------------------------------
\* C8  A rate-limited failure (429) halts the controller at once: no
\*     backoff, no retry of the request, however many retries were used.
\* ---------------------------------------------------------------------
C8_RateLimitHalts ==
    (failures # <<>> /\ failures[Len(failures)] = "rate_limited")
        => /\ Halted
           /\ pc = "idle"
           /\ backoffDelay = 0
           /\ fetchInFlight = <<>>
           /\ retryCount = Len(failures) - 1

C8_Witness ==
    /\ Len(failures) = MAX_RETRIES
    /\ failures[Len(failures)] = "rate_limited"
    /\ lastOp.op = "fetch_fail"
    /\ Halted

\* ---------------------------------------------------------------------
\* C9  A batch that brings zero new images is no error: the controller is
\*     back in Idle (not Backoff, not Halted) with no take or fetch pending,
\*     so the next take waits for the next demand signal.
\* ---------------------------------------------------------------------
C9_EmptyBatchReturnsToIdle ==
    (lastOp.op \in BatchOps /\ lastOp.served = {})
        => /\ Idle
           /\ fetchInFlight = <<>>
           /\ backoffDelay = 0
           /\ retryCount = 0

C9_Witness ==
    /\ lastOp.op = "fetch_ok"
    /\ lastOp.served = {}
    /\ cache = <<>>
    /\ ~isRefilling
    /\ Idle

\* ---------------------------------------------------------------------
\* C10 No failure of the fetch path leaves the demand entry point: each is
\*     caught, and leaves the controller in Backoff or Halted.
\* ---------------------------------------------------------------------
C10_FailuresAreAbsorbed ==
    /\ ~escaped
    /\ lastOp.op = "fetch_fail" => (Backoff \/ (Halted /\ ~isLoading /\ pc = "idle"))

C10_Witness ==
    /\ lastOp.op = "fetch_fail"
    /\ failures # <<>>
    /\ failures[Len(failures)] = "invalid_request"
    /\ Backoff
    /\ ~escaped

\* ---------------------------------------------------------------------
\* C11 cleanupOldImages removes a wrapper only when more than
\*     CLEANUP_TRIGGER_COUNT (50) wrappers are in the DOM and the wrapper is
\*     more than CLEANUP_THRESHOLD (2000) above the scroll position, and then
\*     it removes every such wrapper: with 51 wrappers the one 2100 above is
\*     removed, with 50 or fewer none is.
\* ---------------------------------------------------------------------
C11_EvictionOnlyPastBothMarks ==
    [][LET sizeAtCleanup == Len(window) + Cardinality(lastOp'.served)
           old == {i \in 1..Len(window) : window[i].top < scrollTop' - CLEANUP_THRESHOLD}
       IN  /\ lastOp'.evicted # {}
                => /\ sizeAtCleanup > CLEANUP_TRIGGER_COUNT
                   /\ lastOp'.evicted = {window[i].id : i \in old}
                   /\ lastOp'.evicted \cap WindowIds(window') = {}
           /\ (lastOp'.op \in BatchOps \cup {"cleanup"} /\ lastOp'.evicted = {})
                => (sizeAtCleanup <= CLEANUP_TRIGGER_COUNT \/ old = {})
           /\ Len(window') < Len(window)
                => (lastOp'.evicted # {} \/ lastOp'.op = "image_error")]_vars

C11_Witness ==
    /\ lastOp.op = "cleanup"
    /\ lastOp.evicted = {1}
    /\ scrollTop = CLEANUP_THRESHOLD + 100
    /\ Len(window) = CLEANUP_TRIGGER_COUNT

\* ---------------------------------------------------------------------
\* C12 The first demand of a session asks for
\*     max(ceil(innerHeight / 400) * 2, 10) images.  As stated, with 14
\*     images for a viewport of 1400, the claim fails: ceil(1400/400)*2 is 8.
\* ---------------------------------------------------------------------
FirstDemand == lastOp.op = "demand_miss" /\ totalLoaded = 0

Handling(method) == request # <<>> /\ request[1].method = method
\* the text of the limit parameter of the request being handled
LimitText == IF request[1].limit = <<>> THEN <<>> ELSE request[1].limit[1]
AnsweredAtOnce(status) ==
    /\ response # <<>>
    /\ response[1].status = status
    /\ upstreamCalls = <<>>
    /\ upstreamReply = <<>>
CalledUpstreamWith(n) == Len(upstreamCalls) = 1 /\ upstreamCalls[1].limit = n
DecimalDigits == {"0", "1", "2", "3", "4", "5", "6", "7", "8", "9"}
\* text is a decimal integer literal, with an optional minus sign
Unsigned(text) == text # <<>> /\ \A i \in 1..Len(text) : text[i] \in DecimalDigits
IsDecimal(text) ==
    \/ Unsigned(text)
    \/ Len(text) >= 2 /\ text[1] = "-" /\ Unsigned(Tail(text))
\* text reads as a number: spaces around a decimal literal with an optional
\* sign and an optional fraction, or around a hexadecimal literal
Spaces(text, from, to) == \A i \in from..to : text[i] = " "
DecimalLiteral(t) ==
    LET body == IF t # <<>> /\ t[1] \in {"-", "+"} THEN Tail(t) ELSE t
    IN  /\ \E i \in 1..Len(body) : body[i] \in DecimalDigits
        /\ \A i \in 1..Len(body) : body[i] \in DecimalDigits \cup {"."}
        /\ Cardinality({i \in 1..Len(body) : body[i] = "."}) <= 1
HexLiteral(t) ==
    /\ Len(t) >= 3
    /\ t[1] = "0"
    /\ t[2] \in {"x", "X"}
    /\ \A i \in 3..Len(t) : DigitValue(t[i], 16) >= 0
IsNumeric(text) ==
    \E a \in 1..Len(text), b \in 1..Len(text) :
        /\ a <= b
        /\ Spaces(text, 1, a - 1)
        /\ Spaces(text, b + 1, Len(text))
        /\ DecimalLiteral(SubSeq(text, a, b)) \/ HexLiteral(SubSeq(text, a, b))
DecimalValue(text) ==
    IF text[1] = "-" THEN 0 - DigitsValue(Tail(text), 10) ELSE DigitsValue(text, 10)

\* ---------------------------------------------------------------------
\* C13 For every GET request the upstream API is called only with an integer
\*     limit in 1..100; a missing or empty limit gives 10, a limit above 100
\*     is capped to 100, and a non-numeric limit or a limit below 1 is
\*     answered 400 without an upstream call.  parseInt accepts a
\*     non-numeric text that starts with an integer: GET ?limit=1a calls the
\*     upstream API with limit 1.
\* ---------------------------------------------------------------------
C13_NonNumericIs400 ==
    Handling("GET") =>
        /\ \A i \in 1..Len(upstreamCalls) : upstreamCalls[i].limit \in 1..UPSTREAM_LIMIT_CAP
        /\ LimitText = <<>> => CalledUpstreamWith(10)
        /\ (LimitText # <<>> /\ ~IsNumeric(LimitText)) => AnsweredAtOnce(400)
        /\ (IsDecimal(LimitText) /\ DecimalValue(LimitText) < 1) => AnsweredAtOnce(400)
        /\ (IsDecimal(LimitText) /\ DecimalValue(LimitText) > UPSTREAM_LIMIT_CAP)
              => CalledUpstreamWith(UPSTREAM_LIMIT_CAP)

\* ---------------------------------------------------------------------
\* C14 An upstream 429 is answered 429 with a Retry-After header (the
\*     upstream value, or 60 when there is none) and never 500; every other
\*     upstream failure (another non-OK status, a network error, a body that
\*     cannot be read or parsed) is answered 500; an OK reply with a JSON
\*     body is answered 200 with that JSON value as body.
\* ---------------------------------------------------------------------
Replied == upstreamReply # <<>> /\ response # <<>> /\ upstreamCalls # <<>>

C15_MethodHandling ==
    /\ Handling("OPTIONS") =>
          /\ AnsweredAtOnce(204)
          /\ response[1].body = <<>>
    /\ (request # <<>> /\ request[1].method \notin {"GET", "OPTIONS"}) =>
          AnsweredAtOnce(405)
    /\ (response # <<>> /\ response[1].status \in {204, 405}) => ~Handling("GET")

C15_Witness ==
    /\ Handling("POST")
    /\ LimitText = <<"1", "0">>
    /\ AnsweredAtOnce(405)

\* ---------------------------------------------------------------------
\* C16 Every response (204, 405, 400, 200, 429, 500) carries the headers
\*     Access-Control-Allow-Origin, Access-Control-Allow-Methods and
\*     Access-Control-Allow-Headers.
\* ---------------------------------------------------------------------
CorsNames == {"Access-Control-Allow-Origin", "Access-Control-Allow-Methods",
              "Access-Control-Allow-Headers"}

C16_CorsOnEveryResponse ==
    response # <<>> =>
        /\ response[1].status \in {204, 405, 400, 200, 429, 500}
        /\ CorsNames \subseteq HeaderNames(response[1].headers)
        /\ HeaderValues(response[1].headers, "Access-Control-Allow-Origin") = {"*"}
        /\ HeaderValues(response[1].headers, "Access-Control-Allow-Methods") = {"GET, OPTIONS"}
        /\ HeaderValues(response[1].headers, "Access-Control-Allow-Headers") = {"Content-Type"}

C16_Witness ==
    /\ response # <<>>
    /\ response[1].status = 200
    /\ <<"Cache-Control", "no-cache, no-store, must-revalidate">> \in response[1].headers
    /\ CorsNames \subseteq HeaderNames(response[1].headers)

\* ---------------------------------------------------------------------
\* C17 env.CAT_API_KEY goes only into the x-api-key header of the upstream
\*     call: the run and its twin, which differ only in the key and get the
\*     same upstream reply, return the same response and make the same call
\*     up to that header; the key is in no response; no x-api-key header is
\*     sent when the key is unset.
\* ---------------------------------------------------------------------
KeySet(key) == key \notin {KeyUnset, ""}
Mentions(resp, key) ==
    \/ \E i \in 1..Len(resp.body) : resp.body[i] = key
    \/ \E h \in resp.headers : h[2] = key
ExpectedUpstreamHeaders(calls, key) ==
    \A i \in 1..Len(calls) :
        calls[i].headers = IF KeySet(key) THEN {<<"x-api-key", key>>} ELSE {}

TakeCount == IF pc = "backoff" THEN reqCount ELSE BatchSize
FirstOfCache(k) == SubSeq(cache, 1, k)

C18_TakeNeverWaits ==
    [][lastOp'.op \in TakeOps =>
          LET k == Min(TakeCount, Len(cache))
          IN  /\ cache' = SubSeq(cache, k + 1, Len(cache))
              /\ lastOp'.served = Range(FilterDuplicates(FirstOfCache(k), loadedImageIds))
              /\ lastOp'.served \subseteq loadedImageIds'
              /\ fetchInFlight' = fetchInFlight]_vars

\* C18 (amended) CatAPI.fetch(n) serves from the cache only when the cache
\*     holds at least n images: it then returns the first n in FIFO order,
\*     removes exactly those, and the ones that pass the duplicate filter are
\*     in loadedImageIds when fetchNextBatch returns, without any call
\*     awaited.  With fewer than n images cached it serves nothing from the
\*     cache, leaves it as it is, and awaits a direct call to /api/cats for
\*     n images.
C18_TakeServesOnlyOnHit ==
    [][lastOp'.op \in TakeOps =>
          IF Len(cache) >= TakeCount
          THEN /\ lastOp'.op \in {"demand_hit", "resume_hit"}
               /\ cache' = SubSeq(cache, TakeCount + 1, Len(cache))
               /\ lastOp'.served =
                     Range(FirstOfCache(TakeCount)) \ loadedImageIds
               /\ lastOp'.served \subseteq loadedImageIds'
               /\ fetchInFlight' = fetchInFlight
               /\ fetchInFlight = <<>>
               /\ ~isLoading'
          ELSE /\ lastOp'.op \in {"demand_miss", "resume_miss"}
               /\ cache' = cache
               /\ lastOp'.served = {}
               /\ loadedImageIds' = loadedImageIds
               /\ fetchInFlight' = <<TakeCount>>
               /\ isLoading']_vars

C18_Witness ==
    /\ lastOp.op = "resume_miss"
    /\ cache # <<>>
    /\ Len(cache) < reqCount
    /\ fetchInFlight = <<reqCount>>
    /\ lastOp.served = {}

\* ---------------------------------------------------------------------
\* C19 (as stated) In every reachable state the cache holds no two images
\*     with the same id and no image whose id is in loadedImageIds.
\* ---------------------------------------------------------------------
NoDuplicateInCache == \A i, j \in 1..Len(cache) : cache[i] = cache[j] => i = j
CachedAndLoaded == Range(cache) \cap loadedImageIds

C19_CacheDisjointFromLoaded ==
    /\ NoDuplicateInCache
    /\ CachedAndLoaded = {}

\* C19 (amended) The cache never holds two images with the same id, and a
\*     refill inserts no id that is in loadedImageIds or in the cache at the
\*     time of insertion (ids shown while the refill was in flight
\*     included).  A cached id enters loadedImageIds only when a direct
\*     /api/cats reply of a cache miss shows the same image; the duplicate
\*     filter drops the cached copy when it is taken.
C19_CacheFilteredAtInsertion ==
    /\ [](NoDuplicateInCache)
    /\ [][/\ lastOp'.op = "refill_ok" =>
                /\ Len(cache') >= Len(cache)
                /\ SubSeq(cache', 1, Len(cache)) = cache
                /\ \A i \in (Len(cache) + 1)..Len(cache') :
                      /\ cache'[i] \notin loadedImageIds
                      /\ cache'[i] \notin Range(cache)
                /\ CachedAndLoaded' \subseteq CachedAndLoaded
          /\ ~(CachedAndLoaded' \subseteq CachedAndLoaded) => lastOp'.op = "fetch_ok"
          /\ lastOp'.op \in {"demand_hit", "resume_hit"} =>
                lastOp'.served \cap CachedAndLoaded = {}]_vars

C19_Witness ==
    /\ lastOp.op = "refill_ok"
    /\ cache # <<>>
    /\ loadedImageIds # {}
    /\ CachedAndLoaded = {}
    /\ Len(cache) < BATCH_SIZE

\* ---------------------------------------------------------------------
\* C20 A take starts a background refill exactly when the cache it leaves
\*     holds fewer than BATCH_SIZE images and no refill is running; it
\*     starts none when BATCH_SIZE or more remain.
\* ---------------------------------------------------------------------
C20_RefillBelowLowWater ==
    [][lastOp'.op \in TakeOps =>
          LET started == Len(refillInFlight') = Len(refillInFlight) + 1
          IN  /\ started <=> (Len(cache') < BATCH_SIZE /\ ~isRefilling)
              /\ started <=> lastOp'.refill
              /\ ~started => refillInFlight' = refillInFlight /\ isRefilling' = isRefilling
              /\ started =>
                    /\ isRefilling'
                    /\ refillInFlight'[Len(refillInFlight')] = CACHE_SIZE - Len(cache')
              /\ Len(cache') >= BATCH_SIZE => ~started]_vars

C20_Witness ==
    /\ lastOp.op \in {"demand_hit", "resume_hit"}
    /\ lastOp.refill
    /\ isRefilling
    /\ Len(refillInFlight) = 1
    /\ Len(cache) < BATCH_SIZE

C22_FailedRefillOnlyClearsFlag ==
    [][lastOp'.op = "refill_fail" =>
          /\ isRefilling /\ ~isRefilling'
          /\ cache' = cache
          /\ loadedImageIds' = loadedImageIds
          /\ window' = window
          /\ UNCHANGED ControllerState
          /\ fetchInFlight' = fetchInFlight
          /\ Backoff' <=> Backoff
          /\ Halted' <=> Halted]_vars

C22_Witness ==
    /\ lastOp.op = "refill_fail"
    /\ cache # <<>>
    /\ loadedImageIds # {}
    /\ Idle
    /\ ~isRefilling

\* ---------------------------------------------------------------------
\* C23 The cache never holds more than CACHE_SIZE (20) images: a refill
\*     asks for the number of images missing to CACHE_SIZE and appends at
\*     most that many.
\* ---------------------------------------------------------------------
C23_CacheWithinCapacity ==
    /\ [](Len(cache) <= CACHE_SIZE)
    /\ [](\A i \in 1..Len(refillInFlight) :
             /\ refillInFlight[i] \in 1..CACHE_SIZE
             /\ Len(cache) + refillInFlight[i] <= CACHE_SIZE)
    /\ [][lastOp'.op \in TakeOps /\ lastOp'.refill =>
             refillInFlight'[Len(refillInFlight')] = CACHE_SIZE - Len(cache')]_vars
    /\ [][lastOp'.op = "refill_ok" =>
             Len(cache') - Len(cache) \in 0..Head(refillInFlight)]_vars

C23_Witness ==
    /\ lastOp.op = "refill_ok"
    /\ Len(cache) = CACHE_SIZE
    /\ totalLoaded > CACHE_SIZE - BATCH_SIZE
    /\ everServed \cap Range(cache) = {}

\* ---------------------------------------------------------------------
\* C24 (as stated) For one failing request the retries use RETRY_DELAYS in
\*     order (2000 < 4000 < 8000), only the backoff timer re-issues the
\*     attempt, and the calls to the image source made for the request never
\*     exceed the maximum attempt count, 3.
\* ---------------------------------------------------------------------
\* calls to /api/cats made so far for the request the controller works on
CallsForRequest == Len(failures) + Len(fetchInFlight)
OnlyResumeLeavesBackoff ==
    [][(Backoff /\ (fetchInFlight' # fetchInFlight \/ ~Backoff'))
          => lastOp'.op \in {"resume_hit", "resume_miss"}]_vars
DelaysInOrder ==
    /\ [](Backoff => /\ retryCount \in 1..MAX_RETRIES
                     /\ Len(failures) = retryCount
                     /\ backoffDelay = RETRY_DELAYS[retryCount])
    /\ [][(lastOp'.op = "fetch_fail" /\ Backoff' /\ retryCount > 0)
             => backoffDelay' > RETRY_DELAYS[retryCount]]_vars

C24_CallsWithinMaxRetries ==
    /\ [](CallsForRequest <= MAX_RETRIES)
    /\ DelaysInOrder
    /\ OnlyResumeLeavesBackoff

\* C24 (amended) the same, with MAX_RETRIES counting the retries: the
\*     request is called at most 1 + MAX_RETRIES = 4 times before the
\*     controller is halted.
C24_CallsWithinFirstPlusRetries ==
    /\ [](CallsForRequest <= MAX_RETRIES + 1)
    /\ [](CallsForRequest = MAX_RETRIES + 1 /\ fetchInFlight = <<>> => Halted)
    /\ DelaysInOrder
    /\ OnlyResumeLeavesBackoff

C24_Witness ==
    /\ Backoff
    /\ retryCount = MAX_RETRIES
    /\ backoffDelay = 8000
    /\ failures = Transients(MAX_RETRIES)
    /\ lastOp.op = "demand_ignored"

\* ---------------------------------------------------------------------
\* C25 With every /api/cats call answered and every backoff timer firing,
\*     the controller stays neither in FetchInFlight nor in Backoff for
\*     ever: a demand accepted in Idle leads to Idle or Halted.
\* ---------------------------------------------------------------------
C25_DemandLeadsToIdleOrHalted ==
    /\ [](isLoading => (FetchInFlight \/ Backoff) /\ ~Halted)
    /\ [](FetchInFlight => Len(fetchInFlight) = 1)
    /\ FetchInFlight ~> (Idle \/ Halted)
    /\ Backoff ~> (Idle \/ Halted)

C25_Witness ==
    /\ Idle
    /\ lastOp.op = "fetch_ok"
    /\ totalLoaded > 0
    /\ cache # <<>>

\* ---------------------------------------------------------------------
\* C26 An image that fails to load is removed from the window and nothing
\*     else changes: the controller state with its retry counter, the
\*     cache, loadedImageIds and the other wrappers are as before; the
\*     failed image is never shown again.
\* ---------------------------------------------------------------------
WithoutIndex(w, i) == SubSeq(w, 1, i - 1) \o SubSeq(w, i + 1, Len(w))

C26_ImageErrorRemovesOnlyThatImage ==
    /\ [][lastOp'.op = "image_error" =>
            /\ \E i \in 1..Len(window) :
                  /\ window' = WithoutIndex(window, i)
                  /\ failedIds' = failedIds \cup {window[i].id}
                  /\ window[i].id \notin WindowIds(window')
            /\ ControllerState' = ControllerState
            /\ cache' = cache
            /\ loadedImageIds' = loadedImageIds
            /\ <<isRefilling, fetchInFlight, refillInFlight>>'
                  = <<isRefilling, fetchInFlight, refillInFlight>>
            /\ <<totalLoaded, isInitialLoad, scrollTop>>' = <<totalLoaded, isInitialLoad, scrollTop>>]_vars
    /\ [](failedIds \cap WindowIds(window) = {})
    /\ [](failedIds \subseteq loadedImageIds)
    /\ [][failedIds \cap lastOp'.served = {}]_vars

C26_Witness ==
    /\ failedIds # {}
    /\ lastOp.op = "fetch_ok"
    /\ lastOp.served # {}
    /\ Len(window) > 0
    /\ \E id \in failedIds : \E w \in WindowIds(window) : w > id

\* ---------------------------------------------------------------------
\* C27 A firing of the observer that arrives while a demand is outstanding
\*     is dropped, not queued.  As claimed: CatAPI.fetch is called only by
\*     a firing received in Idle, so there are never more calls than such
\*     firings.
\* ---------------------------------------------------------------------
\* a step in which CatAPI.fetch ran: it took from the cache or started a direct call
TakeStep == Len(cache') < Len(cache) \/ Len(fetchInFlight') > Len(fetchInFlight)

FiringInIdle == Idle /\ lastOp'.op \in {"demand_hit", "demand_miss"}

ScheduledResume == Backoff /\ lastOp'.op \in {"resume_hit", "resume_miss"}

\* everything the engine holds, controller, cache, document and calls awaited
EngineState ==
    <<ControllerState, isInitialLoad, cache, isRefilling, loadedImageIds, totalLoaded,
      window, scrollTop, fetchInFlight, refillInFlight, nextId, failures, failedIds>>

C27_TakesOnlyOnIdleFirings == [][TakeStep => FiringInIdle]_vars

\* C27 (amended) A firing outside Idle changes nothing and leaves nothing
\*     behind, and CatAPI.fetch is called only by a firing received in Idle
\*     or by the scheduled resume of a backoff: there are never more calls
\*     than such firings and resumes together.
C27_TakesOnlyOnIdleFiringsAndResumes ==
    /\ [][TakeStep => FiringInIdle \/ ScheduledResume]_vars
    /\ [][lastOp'.op \in DemandOps /\ ~Idle =>
            /\ lastOp'.op = "demand_ignored"
            /\ ~TakeStep
            /\ EngineState' = EngineState]_vars
    /\ [][lastOp'.op \in TakeOps => TakeStep]_vars

C27_Witness ==
    /\ FetchInFlight
    /\ lastOp.op = "demand_ignored"
    /\ retryCount >= 1
    /\ fetchInFlight # <<>>

\* ---------------------------------------------------------------------
\* C28 Exactly the first demand of a session asks CatAPI.fetch for
\*     INITIAL_BATCH_SIZE images; every later demand asks for BATCH_SIZE,
\*     also when the first demand brought nothing or failed.
\* ---------------------------------------------------------------------
AcceptedDemand == lastOp'.op \in {"demand_hit", "demand_miss"}

\* the number of images the CatAPI.fetch of this step was asked for
AskedFor ==
    IF Len(fetchInFlight') > Len(fetchInFlight)
    THEN fetchInFlight'[Len(fetchInFlight')]
    ELSE Len(cache) - Len(cache')

NothingAskedYet ==
    /\ totalLoaded = 0
    /\ cache = <<>>
    /\ fetchInFlight = <<>>
    /\ refillInFlight = <<>>
    /\ failures = <<>>
    /\ ~isLoading /\ ~hasError

C28_OnlyFirstDemandUsesInitialBatch ==
    /\ isInitialLoad = TRUE
    /\ [](isInitialLoad => NothingAskedYet)
    /\ [][AcceptedDemand =>
            /\ AskedFor = IF isInitialLoad THEN InitialBatchSize(innerHeight) ELSE BATCH_SIZE
            /\ ~isInitialLoad']_vars
    /\ [][isInitialLoad' => isInitialLoad /\ ~AcceptedDemand]_vars
    /\ [][isInitialLoad /\ ~AcceptedDemand => isInitialLoad']_vars

C28_Witness ==
    /\ lastOp.op = "demand_miss"
    /\ reqCount = BATCH_SIZE
    /\ totalLoaded = 0
    /\ InitialBatchSize(innerHeight) > INITIAL_BATCH_FLOOR

\* ---------------------------------------------------------------------
\* C29 At any time at most one cache refill and at most one direct fetch
\*     of fetchNextBatch await a reply, so at most two calls to /api/cats
\*     are outstanding, however demands, refill completions and backoff
\*     resumes interleave.
\* ---------------------------------------------------------------------
CallsAwaited == Len(fetchInFlight) + Len(refillInFlight)

C29_AtMostTwoCallsAwaited ==
    /\ [](Len(refillInFlight) <= 1 /\ Len(fetchInFlight) <= 1 /\ CallsAwaited <= 2)
    /\ [][Len(refillInFlight') > Len(refillInFlight)
            => refillInFlight = <<>> /\ ~isRefilling /\ lastOp'.op \in TakeOps]_vars
    /\ [][Len(fetchInFlight') > Len(fetchInFlight)
            => fetchInFlight = <<>> /\ lastOp'.op \in {"demand_miss", "resume_miss"}]_vars

C29_Witness ==
    /\ CallsAwaited = 2
    /\ lastOp.op = "resume_miss"
    /\ isRefilling
    /\ FetchInFlight

\* ---------------------------------------------------------------------
\* C30 The retry counter counts consecutive failures only: a batch that
\*     arrives resets it, so failures separated by a successful fetch do
\*     not add up; fetching halts on failures only when the retries of
\*     one unbroken run of failures are used up (or on a rate limit).
\* ---------------------------------------------------------------------
LastFailure == failures[Len(failures)]

C30_RetryCountsConsecutiveFailures ==
    /\ [][lastOp'.op \in BatchOps => retryCount' = 0 /\ failures' = <<>>]_vars
    /\ [][lastOp'.op = "fetch_fail" => failures' = Append(failures, LastFailure')]_vars
    /\ [][lastOp'.op \notin BatchOps \cup {"fetch_fail"} => failures' = failures]_vars
    /\ [](~Halted => retryCount = Len(failures))
    /\ [](Halted =>
            /\ failures # <<>>
            /\ \/ LastFailure = "rate_limited"
               \/ retryCount = MAX_RETRIES /\ Len(failures) = MAX_RETRIES + 1)

C30_Witness ==
    /\ Backoff
    /\ lastOp.op = "fetch_fail"
    /\ retryCount = 1
    /\ failures = Transients(1)
    /\ totalLoaded > preloaded

====
